---- MODULE Spec2Model ----
(***************************************************************************)
(* mugi: task resolution, remote reconciliation, repository               *)
(* initialisation and the sync progress loop (cmd/mugi, internal/ui,      *)
(* internal/config, internal/git, internal/remote).                       *)
(***************************************************************************)
EXTENDS Integers, Sequences, FiniteSets, TLC

VARIABLES
    cfg,          \* config.Config loaded by run()
    cmd,          \* cli.Command parsed by run()
    fs,           \* the local file system: per expanded path, its git state
    pc,           \* position of the main goroutine in run()/ui.Run
    tasks,        \* the task list held by run()/Run
    err,          \* the error run() returns ("" while none)
    inits,        \* InitModel.inits
    istates,      \* InitModel.states
    iresults,     \* InitModel.results
    idone,        \* InitModel.done
    iproc,        \* the goroutine of each runInit command: where InitRepo is (pc), its
                  \* firstRemote (first), the remotes it has not added (todo), the
                  \* InitResult it returns (ok for Success, error for Error # nil) and
                  \* whether a call failed for a reason outside the model (env)
    states,       \* Model.states
    results,      \* Model.results
    currentTask,  \* Model.currentTask
    done,         \* Model.done
    quitting,     \* tea.Quit was returned to the running loop and its QuitMsg is still under way
    ri,           \* index of the next task syncRemotes looks at
    inv,          \* the goroutine of each runTask command, by task index: "none" (not
                  \* issued), "running" (git.Execute has not returned: its git process
                  \* is alive under context.Background(), which nothing cancels),
                  \* "ok" / "error" (git.Execute has returned without / with an
                  \* error and the taskResult is on its way to Model.Update) or
                  \* "handled" (Model.Update has handled its taskResult)
    issued,       \* task indices in the order their commands were issued
    log,          \* what the run has done to the outside world so far: the add/set-url
                  \* calls of syncRemotes (recon), their number (calls), whether one of
                  \* them returned an error (failed), the paths cloned into (clone),
                  \* the paths NeedsInit found missing (absent), and per issued task
                  \* index the operation its command hands to git.Execute (exec) and
                  \* the arguments git.Execute runs git with (args)
    repos,        \* the local variable repos of BuildTasks while BuildTasks runs
    spinner       \* Model.spinner: the number of TickMsg it has been updated with

vars == <<cfg, cmd, fs, pc, tasks, err, inits, istates, iresults, idone, iproc,
          states, results, currentTask, done, quitting, ri, inv, issued, log,
          repos, spinner>>

----------------------------------------------------------------------------
(* Bounds of the model *)

\* longest explicit remote selector list on the command line
MaxSel == 3
\* longest task list the run is followed for
MaxTasks == 3
\* longest task list syncRemotes is called twice on
MaxRecon == 2
\* most TickMsg the spinner of a loop is followed for
MaxTicks == 2

----------------------------------------------------------------------------
(* internal/remote *)

Pull == 0
Push == 1
Fetch == 2
Operations == {Pull, Push, Fetch}

All == "all"

OperationString(o) ==
    CASE o = Pull -> "pull"
      [] o = Push -> "push"
      [] o = Fetch -> "fetch"
      [] OTHER -> "unknown"

(* internal/ui: taskState *)
taskPending == 0
taskRunning == 1
taskSuccess == 2
taskFailed == 3

----------------------------------------------------------------------------
(* Helpers over sequences and maps *)

Range(s) == {s[i] : i \in DOMAIN s}

\* every order in which a Go map with key set S can be iterated
Perms(S) ==
    {s \in [1..Cardinality(S) -> S] : \A i, j \in 1..Cardinality(S) : i # j => s[i] # s[j]}

\* a name such as "u/a" is the sequence of its components <<"u", "a">>;
\* filepath.Base is the last component
Base(name) == name[Len(name)]

----------------------------------------------------------------------------
(* internal/config *)

\* os.UserHomeDir()
Home == <<"home">>

\* the working directory of the process, for the selector "."
Cwd == <<"home", "x">>

\* a path is the sequence of its components; "~" as first component is the
\* home shorthand
ExpandPath(r) ==
    IF Len(r.Path) > 0 /\ r.Path[1] = "~" THEN Home \o Tail(r.Path) ELSE r.Path

\* the canonical names ResolveAlias may return: the map is iterated in an
\* unspecified order and the first definition that matches wins
ResolveAlias(c, alias) ==
    LET hits == {n \in DOMAIN c.Remotes : n = alias \/ alias \in c.Remotes[n]}
    IN  IF hits # {} THEN hits ELSE {alias}

\* the full names FindRepoByPath may return ({} when not found)
FindRepoByPath(c, path) ==
    {n \in DOMAIN c.Repos : ExpandPath(c.Repos[n]) = path}

\* the full names FindRepo may return ({} when not found)
FindRepo(c, name) ==
    IF name = <<".">> THEN FindRepoByPath(c, Cwd)
    ELSE IF name \in DOMAIN c.Repos THEN {name}
    ELSE LET matches == {n \in DOMAIN c.Repos : <<Base(n)>> = name}
         IN  IF Cardinality(matches) = 1 THEN matches ELSE {}

AllRepos(c) == Perms(DOMAIN c.Repos)

\* RemotesFor returning the global default set whatever the operation is
RemotesFor_global(d, operation) == d.Remotes

RemotesFor(d, operation) ==
    CASE operation = "pull" /\ Len(d.Pull) > 0 -> d.Pull
      [] operation = "push" /\ Len(d.Push) > 0 -> d.Push
      [] operation = "fetch" /\ Len(d.Fetch) > 0 -> d.Fetch
      [] OTHER -> d.Remotes

----------------------------------------------------------------------------
(* cmd/mugi: applyDefaults *)

applyDefaults(k, c) ==
    LET opRemotes == RemotesFor(c.Defaults, OperationString(k.Operation))
    IN  [k EXCEPT
            !.Verbose = IF c.Defaults.Verbose THEN TRUE ELSE @,
            !.Linear = IF c.Defaults.Linear THEN TRUE ELSE @,
            !.Remotes = IF Len(@) = 1 /\ @[1] = All /\ Len(opRemotes) > 0
                        THEN opRemotes ELSE @]

----------------------------------------------------------------------------
(* internal/ui: the resolver *)

Task(repoName, remoteName, url, path) ==
    [RepoName |-> repoName, RemoteName |-> remoteName, RemoteURL |-> url,
     RepoPath |-> path, Op |-> 0]

\* the possible results of resolveRepos
resolveRepos(c, name) ==
    IF name = <<All>> THEN AllRepos(c)
    ELSE LET found == FindRepo(c, name)
         IN  IF found # {} THEN {<<n>> : n \in found} ELSE {<<>>}

\* the possible results of resolveRemotes
resolveRemotes(c, repo, names) ==
    IF Len(names) = 1 /\ names[1] = All
    THEN Perms(DOMAIN repo.Remotes)
    ELSE {s \in [1..Len(names) -> UNION {ResolveAlias(c, names[i]) : i \in 1..Len(names)}] :
            \A i \in 1..Len(names) : s[i] \in ResolveAlias(c, names[i])}

\* the inner loop of BuildTasks: one task per resolved remote with a URL
RECURSIVE RepoTasks(_, _, _)
RepoTasks(fullName, repo, remotes) ==
    IF remotes = <<>> THEN <<>>
    ELSE LET remoteName == Head(remotes)
             rest == RepoTasks(fullName, repo, Tail(remotes))
         IN  IF remoteName \in DOMAIN repo.Remotes
             THEN <<Task(fullName, remoteName, repo.Remotes[remoteName], ExpandPath(repo))>> \o rest
             ELSE rest

\* the outer loop of BuildTasks over an already resolved repository list
RECURSIVE BuildTasksFrom(_, _, _)
BuildTasksFrom(c, fullNames, remoteNames) ==
    IF fullNames = <<>> THEN {<<>>}
    ELSE {RepoTasks(Head(fullNames), c.Repos[Head(fullNames)], rs) \o rest :
            rs \in resolveRemotes(c, c.Repos[Head(fullNames)], remoteNames),
            rest \in BuildTasksFrom(c, Tail(fullNames), remoteNames)}

\* the possible results of BuildTasks
BuildTasks(c, repoName, remoteNames) ==
    UNION {BuildTasksFrom(c, rs, remoteNames) : rs \in resolveRepos(c, repoName)}

----------------------------------------------------------------------------
(* internal/git over the modelled file system.                            *)
(* fs[path] = [kind, remotes]: kind is "missing" (no such path), "dir"    *)
(* (exists, git rev-parse fails there) or "repo"; remotes maps the        *)
(* configured remote names of a repo to their URLs.                       *)

NoRemotes == [n \in {} |-> ""]

MapPut(m, k, v) == [x \in DOMAIN m \cup {k} |-> IF x = k THEN v ELSE m[x]]
MapDel(m, k) == [x \in DOMAIN m \ {k} |-> m[x]]

IsRepo(f, path) == f[path].kind = "repo"

\* os.Stat(path) reports that the path does not exist
StatNotExist(f, path) == f[path].kind = "missing"

\* the URLs of the model that carry surrounding white space, each with the
\* string strings.TrimSpace returns for it
Padded == [u \in {" urlB "} |-> "urlB"]

TrimSpace(u) == IF u \in DOMAIN Padded THEN Padded[u] ELSE u

\* git remote get-url prints the stored URL and a newline; the output is
\* trimmed, "" on error
GetRemoteURL(f, path, name) ==
    IF IsRepo(f, path) /\ name \in DOMAIN f[path].remotes
    THEN TrimSpace(f[path].remotes[name]) ELSE ""

\* git remote add: refused outside a repository and for a name already there
AddRemoteOk(f, path, name) == IsRepo(f, path) /\ name \notin DOMAIN f[path].remotes
AddRemote(f, path, name, url) ==
    [f EXCEPT ![path].remotes = MapPut(@, name, url)]

\* git remote set-url: refused for a name that is not configured
SetRemoteURLOk(f, path, name) == IsRepo(f, path) /\ name \in DOMAIN f[path].remotes
SetRemoteURL(f, path, name, url) ==
    [f EXCEPT ![path].remotes = MapPut(@, name, url)]

\* git remote rename: refused when old is missing or new is already there
RenameRemoteOk(f, path, old, new) ==
    IsRepo(f, path) /\ old \in DOMAIN f[path].remotes /\ new \notin DOMAIN f[path].remotes
RenameRemote(f, path, old, new) ==
    [f EXCEPT ![path].remotes = MapPut(MapDel(@, old), new, @[old])]

\* git clone: refused into an existing repository; leaves the remote "origin"
CloneOk(f, path) == ~IsRepo(f, path)
Clone(f, url, path) ==
    [f EXCEPT ![path] = [kind |-> "repo", remotes |-> MapPut(NoRemotes, "origin", url)]]

\* git rev-parse --abbrev-ref HEAD, "" on error: the repositories of the
\* model have the branch main checked out, and outside a repository the
\* command fails
currentBranch(f, path) == IF IsRepo(f, path) THEN "main" ELSE ""

\* buildArgs passing --force for every operation
buildArgs_forceAll(f, op, remoteName, repoPath, force) ==
    LET branch == IF currentBranch(f, repoPath) = "" THEN "HEAD" ELSE currentBranch(f, repoPath)
    IN  CASE op = Pull -> IF force THEN <<"pull", "--force", remoteName, branch>>
                          ELSE <<"pull", remoteName, branch>>
          [] op = Push -> IF force THEN <<"push", "--force", remoteName>>
                          ELSE <<"push", remoteName>>
          [] op = Fetch -> IF force THEN <<"fetch", "--force", remoteName>>
                           ELSE <<"fetch", remoteName>>
          [] OTHER -> <<>>

\* the arguments git.Execute runs git with
buildArgs(f, op, remoteName, repoPath, force) ==
    LET branch == IF currentBranch(f, repoPath) = "" THEN "HEAD" ELSE currentBranch(f, repoPath)
    IN  CASE op = Pull -> <<"pull", remoteName, branch>>
          [] op = Push -> IF force THEN <<"push", "--force", remoteName>>
                          ELSE <<"push", remoteName>>
          [] op = Fetch -> <<"fetch", remoteName>>
          [] OTHER -> <<>>

----------------------------------------------------------------------------
(* internal/ui: keys, pull adjustment, initialisation set *)

\* RepoName + ":" + RemoteName, kept as the pair of its two parts
taskKey(t) == <<t.RepoName, t.RemoteName>>

\* RepoPath + ":" + RemoteName in syncRemotes, kept as the pair of its parts
remoteKey(t) == <<t.RepoPath, t.RemoteName>>

\* adjustPullTasks grouping the tasks by repository name instead of path
adjustPullTasks_byName(ts) ==
    [i \in 1..Len(ts) |->
        IF \E j \in 1..(i - 1) : ts[j].RepoName = ts[i].RepoName
        THEN [ts[i] EXCEPT !.Op = Fetch]
        ELSE [ts[i] EXCEPT !.Op = Pull]]

adjustPullTasks(ts) ==
    [i \in 1..Len(ts) |->
        IF \E j \in 1..(i - 1) : ts[j].RepoPath = ts[i].RepoPath
        THEN [ts[i] EXCEPT !.Op = Fetch]
        ELSE [ts[i] EXCEPT !.Op = Pull]]

\* the map collectRepoInit builds: a later task overwrites an earlier one
collectRepoInit(ts, path, name) ==
    LET idx(n) == {i \in 1..Len(ts) : ts[i].RepoPath = path /\ ts[i].RemoteName = n}
        names == {ts[i].RemoteName : i \in {j \in 1..Len(ts) : ts[j].RepoPath = path}}
        last(n) == CHOOSE i \in idx(n) : \A j \in idx(n) : j <= i
    IN  [Name |-> name, Path |-> path,
         Remotes |-> [n \in names |-> ts[last(n)].RemoteURL]]

RECURSIVE NeedsInitFrom(_, _, _)
NeedsInitFrom(f, ts, i) ==
    IF i > Len(ts) THEN <<>>
    ELSE LET task == ts[i]
             seen == \E j \in 1..(i - 1) : ts[j].RepoPath = task.RepoPath
             rest == NeedsInitFrom(f, ts, i + 1)
         IN  IF seen THEN rest
             ELSE IF StatNotExist(f, task.RepoPath)
                  THEN <<collectRepoInit(ts, task.RepoPath, task.RepoName)>> \o rest
             ELSE IF ~IsRepo(f, task.RepoPath)
                  THEN <<collectRepoInit(ts, task.RepoPath, task.RepoName)>> \o rest
             ELSE rest

NeedsInit(f, ts) == NeedsInitFrom(f, ts, 1)

\* allDone holding as soon as one entry is terminal
allDone_any(st) == \E k \in DOMAIN st : st[k] # taskPending /\ st[k] # taskRunning

allDone(st) == \A k \in DOMAIN st : st[k] # taskPending /\ st[k] # taskRunning

\* Model.summary
summary(st) ==
    [success |-> Cardinality({k \in DOMAIN st : st[k] = taskSuccess}),
     failed |-> Cardinality({k \in DOMAIN st : st[k] = taskFailed})]

----------------------------------------------------------------------------
(* The inputs the run is followed for *)

RemoteDefs ==
    [n \in {"github", "codeberg"} |-> IF n = "github" THEN {"gh"} ELSE {"cb"}]

NoDefaults ==
    [Remotes |-> <<>>, Verbose |-> FALSE, Linear |-> FALSE,
     Pull |-> <<>>, Push |-> <<>>, Fetch |-> <<>>]

RemoteMapAB == [n \in {"github", "codeberg"} |-> IF n = "github" THEN "urlA" ELSE "urlB"]
RemoteMapB == [n \in {"github"} |-> "urlB"]

\* two tracked repositories; the second one either has a path of its own or
\* shares the first one's path
RunConfigs ==
    {[Remotes |-> RemoteDefs, Defaults |-> NoDefaults,
      Repos |-> [n \in {<<"u", "a">>, <<"b">>} |->
                    IF n = <<"u", "a">>
                    THEN [Path |-> <<"~", "x">>, Remotes |-> RemoteMapAB]
                    ELSE [Path |-> pb, Remotes |-> RemoteMapB]]] :
        pb \in {<<"home", "x">>, <<"srv", "y">>}}

\* one tracked repository whose remotes are named origin and mirror
RemoteMapOM == [n \in {"origin", "mirror"} |-> IF n = "origin" THEN "urlA" ELSE "urlB"]

OriginConfig ==
    [Remotes |-> RemoteDefs, Defaults |-> NoDefaults,
     Repos |-> [n \in {<<"a">>} |-> [Path |-> <<"srv", "y">>, Remotes |-> RemoteMapOM]]]

RunRepoSelectors == {<<All>>, <<"a">>, <<"b">>, <<"zz">>}

\* the wildcard, or up to MaxSel aliases: "gh" one or more times, then
\* possibly "cb"
RunRemoteSelectors ==
    {<<All>>, <<"cb">>}
        \cup {[i \in 1..k |-> "gh"] : k \in 1..MaxSel}
        \cup {[i \in 1..k |-> IF i < k THEN "gh" ELSE "cb"] : k \in 2..MaxSel}

FsPaths == {<<"home", "x">>, <<"srv", "y">>}

Missing == [kind |-> "missing", remotes |-> NoRemotes]
Dir == [kind |-> "dir", remotes |-> NoRemotes]
Repo(m) == [kind |-> "repo", remotes |-> m]

FsOf(x, y) == [p \in FsPaths |-> IF p = <<"home", "x">> THEN x ELSE y]

\* at most one of the two paths is not yet a repository
RunFs ==
    {FsOf(Missing, Repo(RemoteMapB)), FsOf(Repo(RemoteMapB), Dir),
     FsOf(Repo(RemoteMapB), Repo(RemoteMapB))}

\* neither path is a repository yet: followed for the linear pull of
\* everything only
RunFsNone == FsOf(Missing, Dir)

\* the path of the repository of OriginConfig does not exist
RunFsOrigin == FsOf(Repo(RemoteMapB), Missing)

NoMap == [k \in {} |-> 0]

EmptyLog ==
    [recon |-> {}, clone |-> {}, absent |-> {}, calls |-> 0, failed |-> FALSE, exec |-> {},
     args |-> {}]

Init ==
    /\ cmd \in [Operation : Operations, Repo : RunRepoSelectors, Remotes : RunRemoteSelectors,
                Verbose : {FALSE}, Force : {FALSE}, Linear : BOOLEAN]
    /\ \/ cfg \in RunConfigs /\ fs \in RunFs
       \/ /\ cfg \in RunConfigs /\ fs = RunFsNone
          /\ cmd.Operation = Pull /\ cmd.Linear
          /\ cmd.Repo = <<All>> /\ cmd.Remotes = <<All>>
       \/ /\ cfg = OriginConfig /\ fs = RunFsOrigin
          /\ cmd.Operation = Pull /\ ~cmd.Linear
          /\ cmd.Repo = <<All>> /\ cmd.Remotes = <<All>>
    /\ pc = "main"
    /\ tasks = <<>>
    /\ err = ""
    /\ inits = <<>>
    /\ istates = NoMap
    /\ iresults = NoMap
    /\ idone = FALSE
    /\ iproc = <<>>
    /\ states = NoMap
    /\ results = NoMap
    /\ currentTask = 0
    /\ done = FALSE
    /\ quitting = FALSE
    /\ ri = 1
    /\ inv = <<>>
    /\ issued = <<>>
    /\ log = EmptyLog
    /\ repos = <<>>
    /\ spinner = 0

----------------------------------------------------------------------------
(* cmd/mugi: run() *)

\* config.Load fails
LoadFail ==
    /\ pc = "main"
    /\ err' = "config"
    /\ pc' = "exit"
    /\ UNCHANGED <<cfg, repos, spinner, cmd, fs, tasks, inits, istates, iresults, idone, iproc,
                   states, results, currentTask, done, quitting, ri, inv, issued, log>>

\* Run reconciling the remotes before it initialises the repositories
RunOrder_reconFirst == <<"syncRemotes", "init", "sync">>

\* the statements of Run in the order it executes them: the initialisation
\* of a pull, syncRemotes, and the sync program
RunOrder == <<"init", "syncRemotes", "sync">>

\* the statement of Run that follows stmt
After(stmt) ==
    LET k == CHOOSE j \in 1..Len(RunOrder) : RunOrder[j] = stmt
    IN  RunOrder[k + 1]

\* run() calling Run whatever BuildTasks returned
AfterBuildTasks_always(ts) == RunOrder[1]

\* what run() does with the task list BuildTasks returned: the error return
\* for an empty list, else the call of Run
AfterBuildTasks(ts) == IF Len(ts) = 0 THEN "exit" ELSE RunOrder[1]

\* applyDefaults, BuildTasks and the empty check
Main ==
    /\ pc = "main"
    /\ LET k == applyDefaults(cmd, cfg)
       IN  \E ts \in BuildTasks(cfg, k.Repo, k.Remotes) :
              /\ Len(ts) <= MaxTasks
              /\ cmd' = k
              /\ tasks' = ts
              /\ pc' = AfterBuildTasks(ts)
              /\ err' = IF pc' = "exit" THEN "no matching repositories or remotes found" ELSE ""
    /\ UNCHANGED <<cfg, repos, spinner, fs, inits, istates, iresults, idone, iproc,
                   states, results, currentTask, done, quitting, ri, inv, issued, log>>

----------------------------------------------------------------------------
(* internal/ui: Run, up to the start of the first loop *)

\* Run starting the initialisation program whatever the operation is
InitNeeded_anyOp(op, ins) == Len(ins) > 0

\* whether Run starts the initialisation program
InitNeeded(op, ins) == op = Pull /\ Len(ins) > 0

NewInitStates(ins) == [p \in {ins[i].Path : i \in 1..Len(ins)} |-> taskPending]

IdleProc == [pc |-> "start", first |-> "", todo |-> {}, ok |-> FALSE, error |-> FALSE, env |-> FALSE]

\* Run, for a pull: NeedsInit and, if it names a path, runInit up to
\* NewInitModel and InitModel.Init, which issues every runInit command
RunInit ==
    /\ pc = "init"
    /\ LET ins == NeedsInit(fs, tasks)
       IN  IF InitNeeded(cmd.Operation, ins)
           THEN /\ pc' = "initLoop"
                /\ inits' = ins
                /\ istates' = NewInitStates(ins)
                /\ iproc' = [i \in 1..Len(ins) |-> IdleProc]
                /\ log' = [log EXCEPT !.absent =
                              {ins[i].Path : i \in {j \in 1..Len(ins) : StatNotExist(fs, ins[j].Path)}}]
           ELSE /\ pc' = After("init")
                /\ UNCHANGED <<inits, istates, iproc, log>>
    /\ quitting' = FALSE
    /\ UNCHANGED <<cfg, repos, spinner, cmd, fs, tasks, err, iresults, idone,
                   states, results, currentTask, done, ri, inv, issued>>

----------------------------------------------------------------------------
(* internal/ui: InitRepo, run by the goroutine of one runInit command.    *)
(* Every external call may also fail for reasons outside the model.       *)

\* InitRepo returning no Error with a failed result
Finished_noError(success, left, envOk) ==
    [pc |-> "sent", first |-> "", todo |-> left,
     ok |-> success, error |-> FALSE, env |-> ~envOk]

\* InitRepo returns: with Success and no Error after the last step, with
\* the Error of the failed call, and the remotes in left not added, otherwise
Finished(success, left, envOk) ==
    [pc |-> "sent", first |-> "", todo |-> left,
     ok |-> success, error |-> ~success, env |-> ~envOk]

\* the primary remote (first key the map iteration yields) and MkdirAll
InitRepoMkdir(i) ==
    /\ iproc[i].pc = "start"
    /\ \E name \in DOMAIN inits[i].Remotes, mkdirOk \in BOOLEAN :
          iproc' = [iproc EXCEPT ![i] =
                        IF mkdirOk THEN [@ EXCEPT !.pc = "clone", !.first = name]
                        ELSE Finished(FALSE, DOMAIN inits[i].Remotes, mkdirOk)]
    /\ UNCHANGED <<fs, log>>

InitRepoClone(i) ==
    /\ iproc[i].pc = "clone"
    /\ log' = [log EXCEPT !.clone = @ \cup {inits[i].Path}]
    /\ \E envOk \in BOOLEAN :
          IF envOk /\ CloneOk(fs, inits[i].Path)
          THEN /\ fs' = Clone(fs, inits[i].Remotes[iproc[i].first], inits[i].Path)
               /\ iproc' = [iproc EXCEPT ![i].pc = "rename"]
          ELSE /\ fs' = fs
               /\ iproc' = [iproc EXCEPT ![i] =
                               Finished(FALSE, DOMAIN inits[i].Remotes, envOk)]

\* where InitRepo goes once the remotes in todo are left to add
AfterWiring(proc, todo) ==
    IF todo = {} THEN Finished(TRUE, {}, TRUE) ELSE [proc EXCEPT !.pc = "add", !.todo = todo]

InitRepoRename(i) ==
    /\ iproc[i].pc = "rename"
    /\ \E envOk \in BOOLEAN :
          IF envOk /\ RenameRemoteOk(fs, inits[i].Path, "origin", iproc[i].first)
          THEN /\ fs' = RenameRemote(fs, inits[i].Path, "origin", iproc[i].first)
               /\ iproc' = [iproc EXCEPT ![i] =
                               AfterWiring(@, DOMAIN inits[i].Remotes \ {iproc[i].first})]
          ELSE /\ fs' = fs
               /\ iproc' = [iproc EXCEPT ![i] =
                               Finished(FALSE, DOMAIN inits[i].Remotes \ {iproc[i].first}, envOk)]
    /\ UNCHANGED log

InitRepoAdd(i) ==
    /\ iproc[i].pc = "add"
    /\ \E name \in iproc[i].todo, envOk \in BOOLEAN :
          IF envOk /\ AddRemoteOk(fs, inits[i].Path, name)
          THEN /\ fs' = AddRemote(fs, inits[i].Path, name, inits[i].Remotes[name])
               /\ iproc' = [iproc EXCEPT ![i] = AfterWiring(@, iproc[i].todo \ {name})]
          ELSE /\ fs' = fs
               /\ iproc' = [iproc EXCEPT ![i] = Finished(FALSE, iproc[i].todo, envOk)]
    /\ UNCHANGED log

\* one step of one InitRepo goroutine; the goroutines outlive the loop that
\* issued them and stop only with the process
InitRepo ==
    /\ pc # "exit"
    /\ \E i \in DOMAIN iproc :
          InitRepoMkdir(i) \/ InitRepoClone(i) \/ InitRepoRename(i) \/ InitRepoAdd(i)
    /\ UNCHANGED <<cfg, repos, spinner, cmd, pc, tasks, err, inits, istates, iresults, idone,
                   states, results, currentTask, done, quitting, ri, inv, issued>>

----------------------------------------------------------------------------
(* internal/ui: InitModel.Update and runInit *)

\* InitModel.Update for the initTaskResult of inits[i]
InitUpdate ==
    /\ pc = "initLoop"
    /\ \E i \in DOMAIN iproc :
          /\ iproc[i].pc = "sent"
          /\ iproc' = [iproc EXCEPT ![i].pc = "handled"]
          /\ istates' = [istates EXCEPT ![inits[i].Path] =
                            IF iproc[i].ok THEN taskSuccess ELSE taskFailed]
          /\ iresults' = MapPut(iresults, inits[i].Path,
                                 [Success |-> iproc[i].ok, Error |-> iproc[i].error])
          /\ IF allDone(istates')
             THEN idone' = TRUE /\ quitting' = TRUE
             ELSE UNCHANGED <<idone, quitting>>
    /\ UNCHANGED <<cfg, repos, spinner, cmd, fs, pc, tasks, err, inits,
                   states, results, currentTask, done, ri, inv, issued, log>>

\* InitModel.Update for the key "q" or "ctrl+c": tea.Quit is returned
InitKeyQuit ==
    /\ pc = "initLoop"
    /\ ~quitting
    /\ quitting' = TRUE
    /\ UNCHANGED <<cfg, repos, spinner, cmd, fs, pc, tasks, err, inits, istates, iresults, idone, iproc,
                   states, results, currentTask, done, ri, inv, issued, log>>

\* runInit returning nil whatever the final states are
runInitError_nil(st) == ""

\* the error runInit returns for the final states of the loop ("" for nil)
runInitError(st) ==
    IF \E p \in DOMAIN st : st[p] = taskFailed
    THEN "repository initialisation failed" ELSE ""

\* p.Run() of the init program returns an error, which runInit and Run
\* hand on
InitProgramError ==
    /\ pc = "initLoop"
    /\ err' = "program"
    /\ pc' = "exit"
    /\ quitting' = FALSE
    /\ UNCHANGED <<cfg, repos, spinner, cmd, fs, tasks, inits, istates, iresults, idone, iproc,
                   states, results, currentTask, done, ri, inv, issued, log>>

\* the QuitMsg ends the loop; runInit inspects the final model
InitLoopEnd ==
    /\ pc = "initLoop"
    /\ quitting
    /\ err' = runInitError(istates)
    /\ pc' = IF err' # "" THEN "exit" ELSE After("init")
    /\ quitting' = FALSE
    /\ UNCHANGED <<cfg, repos, spinner, cmd, fs, tasks, inits, istates, iresults, idone, iproc,
                   states, results, currentTask, done, ri, inv, issued, log>>

----------------------------------------------------------------------------
(* internal/ui: syncRemotes, one task of its loop per step *)

\* the mutation syncRemotes makes for a task: "add", "set-url" or "none"
syncRemotesCall(f, ts, i) ==
    IF \E j \in 1..(i - 1) : remoteKey(ts[j]) = remoteKey(ts[i]) THEN "none"
    ELSE IF ~IsRepo(f, ts[i].RepoPath) THEN "none"
    ELSE LET currentURL == GetRemoteURL(f, ts[i].RepoPath, ts[i].RemoteName)
         IN  IF currentURL = "" THEN "add"
             ELSE IF currentURL # ts[i].RemoteURL THEN "set-url"
             ELSE "none"

\* the file system after the call, made for task t, has succeeded
syncRemotesEffect(f, t, call) ==
    IF call = "add" THEN AddRemote(f, t.RepoPath, t.RemoteName, t.RemoteURL)
    ELSE SetRemoteURL(f, t.RepoPath, t.RemoteName, t.RemoteURL)

\* whether git accepts the call made for task t
syncRemotesOk(f, t, call) ==
    IF call = "add" THEN AddRemoteOk(f, t.RepoPath, t.RemoteName)
    ELSE SetRemoteURLOk(f, t.RepoPath, t.RemoteName)

\* the body of the loop of syncRemotes for tasks[i]; the Result of the call
\* is dropped
syncRemotesAt(i) ==
    LET t == tasks[i]
        call == syncRemotesCall(fs, tasks, i)
    IN  IF call = "none" THEN UNCHANGED <<fs, log>>
        ELSE \E envOk \in BOOLEAN :
                LET ok == envOk /\ syncRemotesOk(fs, t, call)
                IN  /\ fs' = IF ok THEN syncRemotesEffect(fs, t, call) ELSE fs
                    /\ log' = [log EXCEPT
                                  !.recon = @ \cup {<<call, t.RepoPath, t.RemoteName, t.RemoteURL>>},
                                  !.calls = @ + 1,
                                  !.failed = @ \/ ~ok]

syncRemotes ==
    /\ pc = "syncRemotes"
    /\ ri <= Len(tasks)
    /\ ri' = ri + 1
    /\ pc' = IF ri' > Len(tasks) THEN After("syncRemotes") ELSE pc
    /\ syncRemotesAt(ri)
    /\ UNCHANGED <<cfg, repos, spinner, cmd, tasks, err, inits, istates, iresults, idone, iproc,
                   states, results, currentTask, done, quitting, inv, issued>>

----------------------------------------------------------------------------
(* internal/ui: the sync Model *)

\* runTask passing the task's operation on as it is
runTaskOp_noFallback(task, operation) == task.Op

\* the operation the command of runTask hands to git.Execute: the task's
\* own, or the run's when the task's is the zero value
runTaskOp(task, operation) == IF task.Op = 0 THEN operation ELSE task.Op

\* log once the commands for the task indices in is have been issued
Issue(ts, is) ==
    LET op(i) == runTaskOp(ts[i], cmd.Operation)
    IN  [log EXCEPT
            !.exec = @ \cup {<<is[j], op(is[j])>> : j \in DOMAIN is},
            !.args = @ \cup {<<is[j], buildArgs(fs, op(is[j]), ts[is[j]].RemoteName,
                                                ts[is[j]].RepoPath, cmd.Force)>> :
                                j \in DOMAIN is}]

NewStates(ts) == [k \in {taskKey(ts[i]) : i \in 1..Len(ts)} |-> taskPending]

\* Model.Init issuing every task whatever the mode
ModelInit_all(lin, n) == [i \in 1..n |-> i]

\* the task indices Model.Init issues, in order
ModelInit(lin, n) ==
    IF lin THEN (IF n > 0 THEN <<1>> ELSE <<>>) ELSE [i \in 1..n |-> i]

\* Run: adjustPullTasks, NewModel and Model.Init, which issues the first
\* runTask commands
SyncStart ==
    /\ pc = "sync"
    /\ tasks' = IF cmd.Operation = Pull THEN adjustPullTasks(tasks) ELSE tasks
    /\ states' = NewStates(tasks')
    /\ results' = NoMap
    /\ currentTask' = 0
    /\ done' = FALSE
    /\ quitting' = FALSE
    /\ issued' = ModelInit(cmd.Linear, Len(tasks'))
    /\ inv' = [i \in 1..Len(tasks') |-> IF i \in Range(issued') THEN "running" ELSE "none"]
    /\ log' = Issue(tasks', issued')
    /\ pc' = "syncLoop"
    /\ UNCHANGED <<cfg, repos, spinner, cmd, fs, err, inits, istates, iresults, idone, iproc, ri>>

\* Model.Update storing Success whatever the result is
ResultState_success(failed) == taskSuccess

\* the state Model.Update stores for a result
ResultState(failed) == IF failed THEN taskFailed ELSE taskSuccess

\* Model.Update issuing the next task in parallel mode too
UpdateIssue_anyMode(lin, cur, n, finished) ==
    IF ~finished /\ cur < n THEN <<cur + 1>> ELSE <<>>

\* the task indices Model.Update issues after a result (cur is the
\* incremented currentTask, the 0-based index of the next task)
UpdateIssue(lin, cur, n, finished) ==
    IF ~finished /\ lin /\ cur < n THEN <<cur + 1>> ELSE <<>>

\* the case taskResult of Model.Update, for the result of tasks[i]
HandleResult(i, failed) ==
    LET key == taskKey(tasks[i])
        next == UpdateIssue(cmd.Linear, currentTask + 1, Len(tasks), allDone(states'))
    IN  /\ states' = [states EXCEPT ![key] = ResultState(failed)]
        /\ results' = MapPut(results, key, [Error |-> failed])
        /\ currentTask' = currentTask + 1
        /\ IF allDone(states')
           THEN done' = TRUE /\ quitting' = TRUE
           ELSE UNCHANGED <<done, quitting>>
        /\ issued' = issued \o next
        /\ log' = Issue(tasks, next)
        /\ inv' = [j \in DOMAIN inv |->
                      IF j = i THEN "handled"
                      ELSE IF j \in Range(next) THEN "running"
                      ELSE inv[j]]

\* git.Execute returns in the goroutine of runTask for tasks[i], with or
\* without an error, and Model.Update handles the taskResult it sends
Update ==
    /\ pc = "syncLoop"
    /\ \E i \in DOMAIN inv, failed \in BOOLEAN :
          /\ inv[i] = "running"
          /\ HandleResult(i, failed)
    /\ UNCHANGED <<cfg, repos, spinner, cmd, fs, pc, tasks, err, inits, istates, iresults, idone, iproc,
                   ri>>

\* Model.Update for the key "q" or "ctrl+c": tea.Quit is returned
KeyQuit ==
    /\ pc = "syncLoop"
    /\ ~quitting
    /\ quitting' = TRUE
    /\ UNCHANGED <<cfg, repos, spinner, cmd, fs, pc, tasks, err, inits, istates, iresults, idone, iproc,
                   states, results, currentTask, done, ri, inv, issued, log>>

\* Run returning an error of its own when a task ended Failed
RunReturn_failed(progErr, st) ==
    IF progErr # "" THEN progErr
    ELSE IF \E k \in DOMAIN st : st[k] = taskFailed THEN "sync failed" ELSE ""

\* what Run returns after the sync program: the error of p.Run(), whatever
\* the final task states are
RunReturn(progErr, st) == progErr

\* p.Run() of the sync program returns an error
ProgramError ==
    /\ pc = "syncLoop"
    /\ pc' = "exit"
    /\ err' = RunReturn("program", states)
    /\ quitting' = FALSE
    /\ UNCHANGED <<cfg, repos, spinner, cmd, fs, tasks, inits, istates, iresults, idone, iproc,
                   states, results, currentTask, done, ri, inv, issued, log>>

\* the QuitMsg ends the loop and Run returns the program's error, nil
LoopEnd ==
    /\ pc = "syncLoop"
    /\ quitting
    /\ pc' = "exit"
    /\ err' = RunReturn("", states)
    /\ quitting' = FALSE
    /\ UNCHANGED <<cfg, repos, spinner, cmd, fs, tasks, inits, istates, iresults, idone, iproc,
                   states, results, currentTask, done, ri, inv, issued, log>>

\* main(): os.Exit(1) when run() returns an error
ExitCode == IF err # "" THEN 1 ELSE 0

----------------------------------------------------------------------------

Next ==
    \/ LoadFail
    \/ Main
    \/ RunInit
    \/ InitRepo
    \/ InitUpdate
    \/ InitKeyQuit
    \/ InitProgramError
    \/ InitLoopEnd
    \/ syncRemotes
    \/ SyncStart
    \/ Update
    \/ KeyQuit
    \/ ProgramError
    \/ LoopEnd

Spec == Init /\ [][Next]_vars

----------------------------------------------------------------------------
(* syncRemotes called twice in a row on one task list, over task lists and *)
(* file systems of every shape                                             *)

ReconURLs == {"urlA", "urlB", " urlB "}

ReconNames == {"github", "codeberg"}

ReconTasks ==
    {Task(<<"r">>, n, u, p) : n \in ReconNames, u \in ReconURLs, p \in FsPaths}

ReconLists == UNION {[1..k -> ReconTasks] : k \in 1..MaxRecon}

ReconRemoteMaps == UNION {[D -> ReconURLs] : D \in SUBSET ReconNames}

ReconFs ==
    {FsOf(x, y) : x \in {Missing, Dir} \cup {Repo(m) : m \in ReconRemoteMaps},
                  y \in {Dir, Repo(NoRemotes)}}

InitRecon ==
    /\ cfg = [Remotes |-> RemoteDefs, Defaults |-> NoDefaults, Repos |-> NoMap]
    /\ cmd = [Operation |-> Fetch, Repo |-> <<All>>, Remotes |-> <<All>>,
              Verbose |-> FALSE, Force |-> FALSE, Linear |-> FALSE]
    /\ fs \in ReconFs
    /\ tasks \in ReconLists
    /\ pc = "recon1"
    /\ err = ""
    /\ inits = <<>>
    /\ istates = NoMap
    /\ iresults = NoMap
    /\ idone = FALSE
    /\ iproc = <<>>
    /\ states = NoMap
    /\ results = NoMap
    /\ currentTask = 0
    /\ done = FALSE
    /\ quitting = FALSE
    /\ ri = 1
    /\ inv = <<>>
    /\ issued = <<>>
    /\ log = EmptyLog
    /\ repos = <<>>
    /\ spinner = 0

\* one turn of the loop of a call of syncRemotes; the call returns after the
\* last task
syncRemotesPass(next) ==
    /\ ri <= Len(tasks)
    /\ syncRemotesAt(ri)
    /\ IF ri = Len(tasks) THEN ri' = 1 /\ pc' = next ELSE ri' = ri + 1 /\ pc' = pc
    /\ UNCHANGED <<cfg, repos, spinner, cmd, tasks, err, inits, istates, iresults, idone, iproc,
                   states, results, currentTask, done, quitting, inv, issued>>

\* the first call
syncRemotesFirst ==
    /\ pc = "recon1"
    /\ syncRemotesPass("recon2")

\* the second call, on the file system the first one left
syncRemotesAgain ==
    /\ pc = "recon2"
    /\ syncRemotesPass("reconDone")

NextRecon ==
    \/ syncRemotesFirst
    \/ syncRemotesAgain

SpecRecon == InitRecon /\ [][NextRecon]_vars

----------------------------------------------------------------------------
(* run() up to the task list, over configurations whose repository names   *)
(* share base-names, are base-names of one another, or are the word "all"  *)

ResolveNames == {<<"u", "a">>, <<"v", "a">>, <<"a">>, <<"all">>}

ResolveConfigs ==
    {[Remotes |-> RemoteDefs, Defaults |-> NoDefaults,
      Repos |-> [n \in D |->
                    IF n = <<"u", "a">>
                    THEN [Path |-> <<"~", "x">>, Remotes |-> RemoteMapAB]
                    ELSE [Path |-> <<"srv">> \o n, Remotes |-> RemoteMapB]]] :
        D \in SUBSET ResolveNames \ {{}}}

ResolveRepoSelectors == {<<All>>, <<"a">>, <<"u", "a">>, <<"zz">>, <<".">>}

ResolveRemoteSelectors == {<<All>>, <<"gh">>, <<"cb">>}

InitResolve ==
    /\ cfg \in ResolveConfigs
    /\ cmd \in [Operation : {Fetch}, Repo : ResolveRepoSelectors,
                Remotes : ResolveRemoteSelectors,
                Verbose : {FALSE}, Force : {FALSE}, Linear : {FALSE}]
    /\ fs = RunFsNone
    /\ pc = "main"
    /\ tasks = <<>>
    /\ err = ""
    /\ inits = <<>>
    /\ istates = NoMap
    /\ iresults = NoMap
    /\ idone = FALSE
    /\ iproc = <<>>
    /\ states = NoMap
    /\ results = NoMap
    /\ currentTask = 0
    /\ done = FALSE
    /\ quitting = FALSE
    /\ ri = 1
    /\ inv = <<>>
    /\ issued = <<>>
    /\ log = EmptyLog
    /\ repos = <<>>
    /\ spinner = 0

\* run(): applyDefaults, and BuildTasks up to the return of resolveRepos
BuildTasksResolve ==
    /\ pc = "main"
    /\ LET k == applyDefaults(cmd, cfg)
       IN  /\ cmd' = k
           /\ repos' \in resolveRepos(cfg, k.Repo)
    /\ pc' = "build"
    /\ UNCHANGED <<cfg, spinner, fs, tasks, err, inits, istates, iresults, idone, iproc,
                   states, results, currentTask, done, quitting, ri, inv, issued, log>>

\* BuildTasks: the loop over repos, and the return of the list to run()
BuildTasksLoop ==
    /\ pc = "build"
    /\ tasks' \in BuildTasksFrom(cfg, repos, cmd.Remotes)
    /\ pc' = "built"
    /\ repos' = <<>>
    /\ UNCHANGED <<cfg, spinner, cmd, fs, err, inits, istates, iresults, idone, iproc,
                   states, results, currentTask, done, quitting, ri, inv, issued, log>>

NextResolve ==
    \/ BuildTasksResolve
    \/ BuildTasksLoop

SpecResolve == InitResolve /\ [][NextResolve]_vars

----------------------------------------------------------------------------
(* run() up to the task list, over the flags of the command line and the   *)
(* defaults of the configuration                                           *)

DefaultsConfigs ==
    {[Remotes |-> RemoteDefs,
      Defaults |-> d,
      Repos |-> [n \in {<<"u", "a">>, <<"b">>} |->
                    IF n = <<"u", "a">>
                    THEN [Path |-> <<"~", "x">>, Remotes |-> RemoteMapAB]
                    ELSE [Path |-> <<"srv", "y">>, Remotes |-> RemoteMapB]]] :
        d \in [Remotes : {<<>>, <<"cb">>}, Verbose : BOOLEAN, Linear : BOOLEAN,
               Pull : {<<>>, <<"github">>}, Push : {<<>>, <<"codeberg">>},
               Fetch : {<<>>, <<"gh", "cb">>}]}

DefaultsRemoteSelectors == {<<All>>, <<"gh">>, <<All, "gh">>, <<"cb", "gh">>}

InitDefaults ==
    /\ cfg \in DefaultsConfigs
    /\ cmd \in [Operation : Operations, Repo : {<<All>>, <<"a">>},
                Remotes : DefaultsRemoteSelectors,
                Verbose : BOOLEAN, Force : {FALSE}, Linear : BOOLEAN]
    /\ fs = RunFsNone
    /\ pc = "main"
    /\ tasks = <<>>
    /\ err = ""
    /\ inits = <<>>
    /\ istates = NoMap
    /\ iresults = NoMap
    /\ idone = FALSE
    /\ iproc = <<>>
    /\ states = NoMap
    /\ results = NoMap
    /\ currentTask = 0
    /\ done = FALSE
    /\ quitting = FALSE
    /\ ri = 1
    /\ inv = <<>>
    /\ issued = <<>>
    /\ log = EmptyLog
    /\ repos = <<>>
    /\ spinner = 0

SpecDefaults == InitDefaults /\ [][NextResolve]_vars

----------------------------------------------------------------------------
(* The sync program message by message: the return of git.Execute in the   *)
(* goroutine of a command and the handling of its taskResult are separate  *)
(* steps, and the key and spinner messages are delivered too               *)

LoopTasks == {Task(<<"r">>, n, "urlA", <<"home", "x">>) : n \in ReconNames}

LoopLists == UNION {[1..k -> LoopTasks] : k \in 1..MaxTasks}

InitLoop ==
    /\ cfg = [Remotes |-> RemoteDefs, Defaults |-> NoDefaults, Repos |-> NoMap]
    /\ cmd \in [Operation : Operations, Repo : {<<All>>}, Remotes : {<<All>>},
                Verbose : {FALSE}, Force : BOOLEAN, Linear : BOOLEAN]
    /\ fs = FsOf(Repo(RemoteMapAB), Dir)
    /\ tasks \in LoopLists
    /\ pc = "sync"
    /\ err = ""
    /\ inits = <<>>
    /\ istates = NoMap
    /\ iresults = NoMap
    /\ idone = FALSE
    /\ iproc = <<>>
    /\ states = NoMap
    /\ results = NoMap
    /\ currentTask = 0
    /\ done = FALSE
    /\ quitting = FALSE
    /\ ri = Len(tasks) + 1
    /\ inv = <<>>
    /\ issued = <<>>
    /\ log = EmptyLog
    /\ repos = <<>>
    /\ spinner = 0

\* the goroutine of runTask writing the state of its task itself
Execute_writing ==
    /\ pc = "syncLoop"
    /\ \E i \in DOMAIN inv, failed \in BOOLEAN :
          /\ inv[i] = "running"
          /\ inv' = [inv EXCEPT ![i] = IF failed THEN "error" ELSE "ok"]
          /\ states' = [states EXCEPT ![taskKey(tasks[i])] = ResultState(failed)]
    /\ UNCHANGED <<cfg, repos, spinner, cmd, fs, pc, tasks, err, inits, istates, iresults,
                   idone, iproc, results, currentTask, done, quitting, ri, issued, log>>

\* the goroutine of the runTask command of tasks[i]: git.Execute returns,
\* with or without an error, and the taskResult is sent to the loop
Execute ==
    /\ pc = "syncLoop"
    /\ \E i \in DOMAIN inv, failed \in BOOLEAN :
          /\ inv[i] = "running"
          /\ inv' = [inv EXCEPT ![i] = IF failed THEN "error" ELSE "ok"]
    /\ UNCHANGED <<cfg, repos, spinner, cmd, fs, pc, tasks, err, inits, istates, iresults,
                   idone, iproc, states, results, currentTask, done, quitting, ri, issued,
                   log>>

\* Model.Update for a taskResult that has arrived
UpdateResult ==
    /\ pc = "syncLoop"
    /\ \E i \in DOMAIN inv :
          /\ inv[i] \in {"ok", "error"}
          /\ HandleResult(i, inv[i] = "error")
    /\ UNCHANGED <<cfg, repos, spinner, cmd, fs, pc, tasks, err, inits, istates, iresults,
                   idone, iproc, ri>>

\* Model.Update for a spinner.TickMsg: only the spinner is updated
Tick ==
    /\ pc = "syncLoop"
    /\ spinner < MaxTicks
    /\ spinner' = spinner + 1
    /\ UNCHANGED <<cfg, repos, cmd, fs, pc, tasks, err, inits, istates, iresults, idone,
                   iproc, states, results, currentTask, done, quitting, ri, inv, issued,
                   log>>

Keys == {"q", "ctrl+c", "x"}

\* Model.Update for a tea.KeyMsg: tea.Quit for "q" and "ctrl+c", nothing
\* for any other key
Key ==
    /\ pc = "syncLoop"
    /\ \E k \in Keys : quitting' = (quitting \/ k \in {"q", "ctrl+c"})
    /\ UNCHANGED <<cfg, repos, spinner, cmd, fs, pc, tasks, err, inits, istates, iresults,
                   idone, iproc, states, results, currentTask, done, ri, inv, issued, log>>

NextLoop ==
    \/ SyncStart
    \/ Execute
    \/ UpdateResult
    \/ Tick
    \/ Key
    \/ ProgramError
    \/ LoopEnd

SpecLoop == InitLoop /\ [][NextLoop]_vars

----------------------------------------------------------------------------
(* Properties *)

Terminal(st) == st = taskSuccess \/ st = taskFailed

InSync == pc = "syncLoop" \/ (pc = "exit" /\ DOMAIN inv # {})

Running == {i \in DOMAIN inv : inv[i] = "running"}

\* C1: the task list BuildTasks returns has pairwise distinct keys
\* (local path, remote name).
C1_DistinctKeys ==
    \A i, j \in 1..Len(tasks) : i # j => remoteKey(tasks[i]) # remoteKey(tasks[j])

\* C2: once the state stored for a task is Succeeded or Failed, no later
\* event of the sync loop changes it.
C2_TerminalStable ==
    [][\A i \in DOMAIN inv :
          LET key == taskKey(tasks[i])
          IN  (key \in DOMAIN states /\ Terminal(states[key])) => states'[key] = states[key]]_vars

\* C3: in linear mode at most one invocation is outstanding, every
\* invocation but the last issued one has had its completion event handled,
\* and the invocations are issued in the order of the task list.
C3_LinearOneAtATime ==
    (cmd.Linear /\ InSync) =>
        /\ Cardinality(Running) <= 1
        /\ issued = [j \in 1..Len(issued) |-> j]
        /\ \A j \in 1..(Len(issued) - 1) : inv[j] = "handled"
        /\ \A i \in DOMAIN inv : inv[i] # "none" => i \in Range(issued)

C3_Witness ==
    /\ cmd.Linear /\ pc = "syncLoop"
    /\ Len(tasks) = 3 /\ issued = <<1, 2, 3>> /\ inv[3] = "running"

\* C4: the sync loop sets done exactly when every task of the list has had
\* its completion event handled: never while a task is unissued or
\* outstanding, and as soon as the last one is handled.
C4_DoneIffAllHandled ==
    InSync => (done <=> \A i \in DOMAIN inv : inv[i] = "handled")

\* C5: adjustPullTasks keeps the list's length, order and every field but
\* the operation; of the tasks sharing a path the first gets Pull and every
\* later one Fetch.
C5_AdjustPull ==
    [][(pc = "sync" /\ pc' = "syncLoop" /\ cmd.Operation = Pull) =>
          /\ Len(tasks') = Len(tasks)
          /\ \A i \in 1..Len(tasks) :
                /\ [tasks'[i] EXCEPT !.Op = tasks[i].Op] = tasks[i]
                /\ tasks'[i].Op =
                      IF \A j \in 1..(i - 1) : tasks[j].RepoPath # tasks[i].RepoPath
                      THEN Pull ELSE Fetch
          /\ \A q \in {tasks[i].RepoPath : i \in 1..Len(tasks)} :
                Cardinality({i \in 1..Len(tasks') :
                                tasks'[i].RepoPath = q /\ tasks'[i].Op = Pull}) = 1]_vars

\* a pull run whose adjusted list holds two repositories on one path
C5_Witness ==
    /\ pc = "syncLoop" /\ cmd.Operation = Pull
    /\ \E i, j \in 1..Len(tasks) :
          /\ i < j /\ tasks[i].RepoPath = tasks[j].RepoPath
          /\ tasks[i].RepoName # tasks[j].RepoName
          /\ tasks[i].Op = Pull /\ tasks[j].Op = Fetch

InitFailed == \E p \in DOMAIN istates : istates[p] = taskFailed

C7_SyncOnlyAfterInit ==
    (cmd.Operation = Pull /\ issued # <<>>) =>
        \A p \in DOMAIN istates : istates[p] = taskSuccess

\* C8: in a pull run, once a RepoInit is Failed no reconciliation mutation
\* is made and no sync task is issued for any repository, and the run ends
\* with an error and exit status 1: the initialisation error, unless the
\* init program itself returned an error.
C8_FailedInitAborts ==
    (cmd.Operation = Pull /\ InitFailed) =>
        /\ log.recon = {} /\ ri = 1
        /\ issued = <<>> /\ inv = <<>>
        /\ pc \in {"initLoop", "exit"}
        /\ pc = "exit" => (err # "" /\ ExitCode = 1)
        /\ (pc = "exit" /\ err # "program") => err = "repository initialisation failed"

\* a pull run that ended with one RepoInit Failed and another Succeeded
C8_Witness ==
    /\ pc = "exit" /\ cmd.Operation = Pull /\ ExitCode = 1
    /\ \E p, q \in DOMAIN istates : istates[p] = taskFailed /\ istates[q] = taskSuccess

\* C9: handling the completion event of a failing task changes only that
\* task's state and result, leaves every other outstanding invocation
\* outstanding, and in linear mode issues the next task of the list.
C9_FailureIsolated ==
    [][\A i \in DOMAIN inv :
          (/\ pc = "syncLoop" /\ inv[i] = "running" /\ inv'[i] = "handled"
           /\ states'[taskKey(tasks[i])] = taskFailed) =>
              /\ \A j \in DOMAIN inv \ {i} :
                    /\ states'[taskKey(tasks[j])] = states[taskKey(tasks[j])]
                    /\ IF taskKey(tasks[j]) \in DOMAIN results
                       THEN results'[taskKey(tasks[j])] = results[taskKey(tasks[j])]
                       ELSE taskKey(tasks[j]) \notin DOMAIN results'
                    /\ inv[j] = "running" => inv'[j] = "running"
              /\ (cmd.Linear /\ i < Len(tasks)) => inv'[i + 1] = "running"]_vars

\* the selector names no tracked repository, or no remote resolved for a
\* selected repository has a URL in it
C10_NoMatch ==
    \/ cmd.Repo # <<All>> /\ FindRepo(cfg, cmd.Repo) = {}
    \/ \A n \in (IF cmd.Repo = <<All>> THEN DOMAIN cfg.Repos ELSE FindRepo(cfg, cmd.Repo)) :
          \A rs \in resolveRemotes(cfg, cfg.Repos[n], cmd.Remotes) :
              \A i \in 1..Len(rs) : rs[i] \notin DOMAIN cfg.Repos[n].Remotes

\* C10: when nothing matches, BuildTasks returns the empty list and the run
\* ends with "no matching repositories or remotes found" and exit status 1
\* before any initialisation, reconciliation or sync invocation.
C10_NoMatchFails ==
    (pc # "main" /\ err # "config" /\ C10_NoMatch) =>
        /\ tasks = <<>>
        /\ pc = "exit"
        /\ err = "no matching repositories or remotes found" /\ ExitCode = 1
        /\ inits = <<>> /\ iproc = <<>> /\ log = EmptyLog /\ ri = 1
        /\ issued = <<>> /\ inv = <<>>

\* a run for a selector that names no tracked repository has ended
C10_Witness ==
    /\ pc = "exit" /\ cmd.Repo = <<"zz">>
    /\ err = "no matching repositories or remotes found"

Interrupted == quitting /\ ~done

\* the sync loop has ended on the user's q / ctrl+c
EndedByInterrupt == pc = "exit" /\ DOMAIN inv # {} /\ ~done /\ err = ""

\* C12: once the sync loop has ended on q / ctrl+c, no invocation is left
\* running uncancelled.
C12_InterruptCancels ==
    EndedByInterrupt => \A i \in DOMAIN inv : inv[i] # "running"

\* C13: in linear mode no task is issued once the sync loop has handled
\* q / ctrl+c, also when the result of the task in flight arrives afterwards.
C13_NoIssueAfterInterrupt ==
    [][(cmd.Linear /\ pc = "syncLoop" /\ Interrupted) => issued' = issued]_vars

\* C14: when every add/set-url of a first call of syncRemotes succeeded, a
\* second call on the same task list makes no add and no set-url.
C14_ReconcileIdempotent ==
    [][(pc = "recon2" /\ ~log.failed) => log'.calls = log.calls]_vars

\* what the reconciler is to do for tasks[i]: nothing for a pair (path,
\* remote name) an earlier task has, nothing outside a working copy, else
\* add the remote if it is not configured, set its URL if the configured URL
\* differs from the task's, nothing if they are equal
C15_Expected(f, ts, i) ==
    LET t == ts[i]
    IN  IF \E j \in 1..(i - 1) :
              ts[j].RepoPath = t.RepoPath /\ ts[j].RemoteName = t.RemoteName
        THEN "none"
        ELSE IF f[t.RepoPath].kind # "repo" THEN "none"
        ELSE IF t.RemoteName \notin DOMAIN f[t.RepoPath].remotes THEN "add"
        ELSE IF f[t.RepoPath].remotes[t.RemoteName] # t.RemoteURL THEN "set-url"
        ELSE "none"

\* C15: for each task the reconciler makes exactly the call described
\* above, at most one per pair (path, remote name), and changes nothing but
\* the remote of that pair.
C15_ReconcilePerPair ==
    [][pc = "recon1" =>
          LET t == tasks[ri]
              exp == C15_Expected(fs, tasks, ri)
          IN  /\ log'.calls - log.calls = IF exp = "none" THEN 0 ELSE 1
              /\ exp # "none" =>
                    <<exp, t.RepoPath, t.RemoteName, t.RemoteURL>> \in log'.recon
              /\ exp = "none" => fs' = fs
              /\ fs' # fs => fs'[t.RepoPath].remotes[t.RemoteName] = t.RemoteURL
              /\ \A q \in FsPaths :
                    /\ fs'[q].kind = fs[q].kind
                    /\ \A n \in DOMAIN fs[q].remotes \cup DOMAIN fs'[q].remotes :
                          (q # t.RepoPath \/ n # t.RemoteName) =>
                              /\ n \in DOMAIN fs[q].remotes /\ n \in DOMAIN fs'[q].remotes
                              /\ fs'[q].remotes[n] = fs[q].remotes[n]]_vars

\* InitRepo of inits[i] has returned
Returned(proc) == proc.pc \in {"sent", "handled"}

\* C16: when InitRepo returns Success for a path that was absent, the path
\* is a working copy whose remotes are exactly those of RepoInit.Remotes,
\* each with its URL.
C16_InitSuccessWiring ==
    [][\A i \in DOMAIN iproc :
          (/\ inits[i].Path \in log.absent
           /\ ~Returned(iproc[i]) /\ Returned(iproc'[i]) /\ iproc'[i].ok) =>
              fs'[inits[i].Path] = Repo(inits[i].Remotes)]_vars

\* C17: for the remotes {origin, mirror} the initialisation succeeds for
\* either choice of primary remote, unless a call fails for an outside
\* reason, and leaves exactly origin -> urlA and mirror -> urlB.
C17_EitherPrimary ==
    \A i \in DOMAIN iproc :
        (/\ pc = "initLoop"
         /\ DOMAIN inits[i].Remotes = {"origin", "mirror"}
         /\ Returned(iproc[i]) /\ ~iproc[i].env) =>
            /\ iproc[i].ok
            /\ fs[inits[i].Path] = Repo(RemoteMapOM)

\* C18: NeedsInit returns a RepoInit for a path exactly if the path is in
\* the task list and is missing or no working copy, at most one per path,
\* and its remote map holds exactly the (name, URL) pairs of the tasks of
\* that path.
C18_NeedsInit ==
    [][(pc = "init" /\ cmd.Operation = Pull) =>
          /\ \A q \in FsPaths :
                (\E i \in 1..Len(inits') : inits'[i].Path = q) <=>
                    /\ \E j \in 1..Len(tasks) : tasks[j].RepoPath = q
                    /\ fs[q].kind \in {"missing", "dir"}
          /\ \A i, j \in 1..Len(inits') : inits'[i].Path = inits'[j].Path => i = j
          /\ \A i \in 1..Len(inits') :
                {<<n, inits'[i].Remotes[n]>> : n \in DOMAIN inits'[i].Remotes} =
                    {<<tasks[j].RemoteName, tasks[j].RemoteURL>> :
                        j \in {k \in 1..Len(tasks) : tasks[k].RepoPath = inits'[i].Path}}]_vars

\* C19: a failing step of InitRepo changes nothing, InitRepo returns at
\* once with Success false and an error and takes no later step, so the
\* remotes it had left stay unadded, and the init loop records the result as
\* Failed for the path.
C19_InitStepFailure ==
    [][\A i \in DOMAIN iproc :
          /\ (~Returned(iproc[i]) /\ Returned(iproc'[i]) /\ ~iproc'[i].ok) =>
                /\ fs' = fs
                /\ iproc'[i].error
          /\ (Returned(iproc[i]) /\ ~iproc[i].ok) =>
                /\ iproc'[i] = iproc[i] \/ iproc'[i] = [iproc[i] EXCEPT !.pc = "handled"]
                /\ pc = "initLoop" =>
                      \A n \in iproc[i].todo :
                          n \in DOMAIN fs[inits[i].Path].remotes <=>
                              n \in DOMAIN fs'[inits[i].Path].remotes
          /\ (iproc[i].pc = "sent" /\ iproc'[i].pc = "handled" /\ ~iproc[i].ok) =>
                /\ istates'[inits[i].Path] = taskFailed
                /\ iresults'[inits[i].Path] = [Success |-> FALSE, Error |-> TRUE]]_vars

\* the init loop has recorded Failed for an InitRepo whose rename failed
\* after a clone that succeeded, and the other remote is not added
C19_Witness ==
    \E i \in DOMAIN iproc :
        /\ pc = "initLoop" /\ iproc[i].pc = "handled" /\ ~iproc[i].ok
        /\ istates[inits[i].Path] = taskFailed
        /\ iproc[i].todo # {}
        /\ fs[inits[i].Path].kind = "repo"
        /\ \E n \in iproc[i].todo : n \notin DOMAIN fs[inits[i].Path].remotes

\* C20: while the invocation of a task has been issued and its completion
\* has not been handled, the recorded state of the task is Running, and in
\* no step does a task go from Pending to a terminal state.
C20_PendingRunningTerminal ==
    [][pc = "syncLoop" =>
          /\ \A i \in Running : states[taskKey(tasks[i])] = taskRunning
          /\ \A k \in DOMAIN states :
                ~(states[k] = taskPending /\ Terminal(states'[k]))]_vars

\* C21: in parallel mode Model.Init issues every task of the list exactly
\* once, in the order of the list, and handling a completion event issues
\* no further invocation.
C21_ParallelIssuedOnce ==
    [][/\ (~cmd.Linear /\ pc = "sync" /\ pc' = "syncLoop") =>
             /\ issued' = [i \in 1..Len(tasks') |-> i]
             /\ \A i \in 1..Len(tasks') : inv'[i] = "running"
       /\ (~cmd.Linear /\ pc = "syncLoop") =>
             /\ issued' = issued
             /\ \A i \in DOMAIN inv : inv'[i] = "running" => inv[i] = "running"]_vars

\* a parallel run of three tasks in which two completion events have been
\* handled and the third invocation is outstanding
C21_Witness ==
    /\ ~cmd.Linear /\ pc = "syncLoop"
    /\ Len(tasks) = 3 /\ issued = <<1, 2, 3>>
    /\ Cardinality({i \in DOMAIN inv : inv[i] = "handled"}) = 2
    /\ Cardinality(Running) = 1

\* C22: when the run is done, the succeeded and failed counts of the
\* summary add up to the number of tasks of the list.
C22_SummaryCounts ==
    (InSync /\ done) =>
        summary(states).success + summary(states).failed = Len(tasks)

\* the repositories the selector of the command resolves to
ResolvedRepos == IF cmd.Repo = <<All>> THEN DOMAIN cfg.Repos ELSE FindRepo(cfg, cmd.Repo)

\* the canonical remote names the selectors of the command resolve to for
\* repository n
ResolvedNames(n) ==
    IF cmd.Remotes = <<All>> THEN DOMAIN cfg.Repos[n].Remotes
    ELSE UNION {ResolveAlias(cfg, cmd.Remotes[i]) : i \in 1..Len(cmd.Remotes)}

\* the remote names of the tasks of repository n, in the order of the list
TaskNames(n) ==
    LET OfRepo(t) == t.RepoName = n
        ts == SelectSeq(tasks, OfRepo)
    IN  [i \in 1..Len(ts) |-> ts[i].RemoteName]

\* C23: the list BuildTasks returns holds exactly one task for every
\* resolved repository and resolved canonical remote name the repository has
\* a URL for and none for any other combination; every task carries the
\* repository's name, its expanded path and the URL of the remote; explicit
\* selectors are resolved through the aliases in the order given.
C23_OneTaskPerCombination ==
    (pc # "main" /\ err # "config") =>
        /\ \A n \in ResolvedRepos : \A c \in ResolvedNames(n) :
              Cardinality({i \in 1..Len(tasks) :
                              tasks[i].RepoName = n /\ tasks[i].RemoteName = c})
                 = IF c \in DOMAIN cfg.Repos[n].Remotes THEN 1 ELSE 0
        /\ \A i \in 1..Len(tasks) :
              LET t == tasks[i]
              IN  /\ t.RepoName \in ResolvedRepos
                  /\ t.RemoteName \in ResolvedNames(t.RepoName)
                  /\ t.RemoteName \in DOMAIN cfg.Repos[t.RepoName].Remotes
                  /\ t.RemoteURL = cfg.Repos[t.RepoName].Remotes[t.RemoteName]
                  /\ t.RepoPath = ExpandPath(cfg.Repos[t.RepoName])
        /\ cmd.Remotes # <<All>> =>
              \A n \in ResolvedRepos :
                  \E rs \in resolveRemotes(cfg, cfg.Repos[n], cmd.Remotes) :
                      LET HasURL(c) == c \in DOMAIN cfg.Repos[n].Remotes
                      IN  TaskNames(n) = SelectSeq(rs, HasURL)

\* C24: the wildcard resolves to every tracked repository; an exact tracked
\* name resolves to that repository alone, also when it is the base-name of
\* other repositories; a base-name resolves to the one tracked repository
\* that has it and to nothing when two or more have it.
C24_RepoSelector ==
    pc = "build" =>
        /\ cmd.Repo = <<All>> =>
              /\ Range(repos) = DOMAIN cfg.Repos
              /\ Len(repos) = Cardinality(DOMAIN cfg.Repos)
        /\ cmd.Repo \in DOMAIN cfg.Repos => repos = <<cmd.Repo>>
        /\ (cmd.Repo \notin DOMAIN cfg.Repos /\ cmd.Repo \notin {<<All>>, <<".">>}) =>
              LET same == {n \in DOMAIN cfg.Repos : <<Base(n)>> = cmd.Repo}
              IN  IF Cardinality(same) = 1
                  THEN \E n \in same : repos = <<n>>
                  ELSE repos = <<>>

\* the taskResult of some task is handled in this step
Handling == \E i \in DOMAIN inv : inv[i] \in {"ok", "error"} /\ inv'[i] = "handled"

\* C25: in the sync loop the state map, the result map and the linear
\* position change only in a step that handles a task's completion event:
\* a key press, a spinner tick and the return of git.Execute in the
\* goroutine of an invocation leave all three as they are.
C25_OnlyCompletionWrites ==
    [][pc = "syncLoop" =>
          /\ (states' # states \/ results' # results \/ currentTask' # currentTask)
                => Handling
          /\ (spinner' # spinner \/ (quitting' # quitting /\ ~Handling)
                \/ \E i \in DOMAIN inv : inv[i] = "running" /\ inv'[i] \in {"ok", "error"})
                => UNCHANGED <<states, results, currentTask>>]_vars

\* after a tick and a quit key one invocation has returned and its task
\* is still recorded Pending, and another one's result has been handled
C25_Witness ==
    /\ pc = "syncLoop" /\ spinner > 0 /\ quitting /\ ~done
    /\ \E i, j \in DOMAIN inv :
          /\ inv[i] \in {"ok", "error"} /\ states[taskKey(tasks[i])] = taskPending
          /\ inv[j] = "handled" /\ Terminal(states[taskKey(tasks[j])])

\* C26: in every state of the sync model a result is recorded for a task
\* exactly when the task's state is Succeeded or Failed, and the state is
\* Failed exactly when the recorded result carries an error.
C26_ResultIffTerminal ==
    InSync =>
        /\ DOMAIN results \subseteq DOMAIN states
        /\ \A i \in 1..Len(tasks) : taskKey(tasks[i]) \in DOMAIN states
        /\ \A k \in DOMAIN states :
              /\ k \in DOMAIN results <=> Terminal(states[k])
              /\ k \in DOMAIN results => (states[k] = taskFailed <=> results[k].Error)

\* one task is Failed with a result that carries an error, another is
\* Succeeded, and a third is Pending and has no result
C26_Witness ==
    /\ pc = "syncLoop"
    /\ \E j, k, l \in DOMAIN states :
          /\ states[j] = taskFailed /\ j \in DOMAIN results /\ results[j].Error
          /\ states[k] = taskSuccess /\ k \in DOMAIN results /\ ~results[k].Error
          /\ states[l] = taskPending /\ l \notin DOMAIN results

\* no initialisation has taken place, every mutation syncRemotes made was
\* in a repository, and once the sync program has started its first task
\* (linear) or all its tasks (parallel) are issued
NoInitButSync ==
    /\ pc # "initLoop"
    /\ inits = <<>> /\ iproc = <<>> /\ istates = NoMap
    /\ log.clone = {} /\ log.absent = {}
    /\ \A c \in log.recon : IsRepo(fs, c[2])
    /\ InSync => IF cmd.Linear THEN issued # <<>> /\ issued[1] = 1
                 ELSE issued = [i \in 1..Len(tasks) |-> i]

\* C27: in a push or fetch run nothing is initialised, also when a target
\* path is missing or not a repository: no path changes its kind and no
\* remote appears in such a path; syncRemotes makes no call for it, and its
\* tasks are issued like any other.
C27_InitOnlyForPull ==
    [][cmd.Operation # Pull =>
          /\ NoInitButSync /\ NoInitButSync'
          /\ \A p \in FsPaths :
                /\ fs'[p].kind = fs[p].kind
                /\ ~IsRepo(fs, p) => fs'[p] = fs[p]
          /\ \A i \in DOMAIN inv :
                (cmd.Linear /\ inv[i] = "running" /\ inv'[i] = "handled"
                   /\ ~done' /\ i < Len(tasks)) => inv'[i + 1] = "running"]_vars

\* a push or fetch run in which syncRemotes has changed a remote of one
\* path, and the invocation for a task whose path is not a repository is
\* in flight
C27_Witness ==
    /\ cmd.Operation # Pull /\ pc = "syncLoop" /\ log.recon # {}
    /\ \E i \in DOMAIN inv : inv[i] = "running" /\ ~IsRepo(fs, tasks[i].RepoPath)

\* C28: the operation handed to git.Execute for a task is, in a pull run,
\* Pull for the first task of a path and Fetch for every later one, in a
\* push run Push and in a fetch run Fetch; a task downgraded to Fetch is
\* never run as Pull, and Pull is never run in a push or fetch run.
C28_ExecutedOperation ==
    InSync =>
        /\ \A i \in Range(issued) : \E op \in Operations : <<i, op>> \in log.exec
        /\ \A e \in log.exec :
              /\ e[1] \in Range(issued)
              /\ e[2] = CASE cmd.Operation = Pull ->
                                IF \E j \in 1..(e[1] - 1) : tasks[j].RepoPath = tasks[e[1]].RepoPath
                                THEN Fetch ELSE Pull
                          [] cmd.Operation = Push -> Push
                          [] cmd.Operation = Fetch -> Fetch

\* a pull run that has executed Pull for the first task of a path and Fetch
\* for the second task of the same path
C28_Witness ==
    /\ cmd.Operation = Pull /\ InSync
    /\ \E i, j \in 1..Len(tasks) :
          /\ i < j /\ tasks[i].RepoPath = tasks[j].RepoPath
          /\ <<i, Pull>> \in log.exec /\ <<j, Fetch>> \in log.exec

\* C29: when the sync run has reached done, every task of the list has
\* been issued exactly once.
C29_DoneAllIssuedOnce ==
    (InSync /\ done) =>
        /\ Len(issued) = Len(tasks)
        /\ Range(issued) = 1..Len(tasks)

\* C30: InitModel.Init starts the InitRepo of every RepoInit at once; each
\* InitRepo sends one result, the handling of which moves its path from
\* Pending to Succeeded or Failed once and for all; a step of one InitRepo,
\* failing or not, changes nothing of another RepoInit; and the init loop
\* sets done and quits exactly when every RepoInit is terminal.
C30_InitPhase ==
    [][/\ (pc = "init" /\ pc' = "initLoop") =>
             /\ DOMAIN iproc' = DOMAIN inits' /\ inits' # <<>>
             /\ \A i \in DOMAIN inits' :
                   iproc'[i].pc = "start" /\ istates'[inits'[i].Path] = taskPending
       /\ \A i \in DOMAIN iproc :
             LET p == inits[i].Path
             IN  /\ Terminal(istates[p]) => istates'[p] = istates[p]
                 /\ istates'[p] # istates[p] =>
                       /\ pc = "initLoop" /\ Terminal(istates'[p])
                       /\ iproc[i].pc = "sent" /\ iproc'[i].pc = "handled"
                 /\ iproc[i].pc = "sent" => iproc'[i].pc \in {"sent", "handled"}
                 /\ iproc[i].pc = "handled" => iproc'[i] = iproc[i]
                 /\ iproc'[i] # iproc[i] =>
                       \A j \in DOMAIN iproc \ {i} :
                           /\ iproc'[j] = iproc[j]
                           /\ fs'[inits[j].Path] = fs[inits[j].Path]
                           /\ istates'[inits[j].Path] = istates[inits[j].Path]
       /\ pc' = "initLoop" =>
             /\ idone' <=> \A p \in DOMAIN istates' : Terminal(istates'[p])
             /\ (idone' /\ ~idone) => quitting']_vars

\* the init loop has set done with one RepoInit Failed and another one
\* Succeeded, its path now a repository
C30_Witness ==
    /\ pc = "initLoop" /\ idone
    /\ \E i, j \in DOMAIN iproc :
          /\ istates[inits[i].Path] = taskFailed /\ iproc[i].pc = "handled"
          /\ istates[inits[j].Path] = taskSuccess /\ iproc[j].pc = "handled"
          /\ IsRepo(fs, inits[j].Path)

\* C31: the force flag changes the arguments of a push only: a Push is run
\* with --force exactly when the flag is set, and every Pull and Fetch,
\* the Fetch of a task downgraded in a pull run included, is run with the
\* arguments it has without the flag.
C31_ForceOnlyPush ==
    InSync =>
        /\ \A i \in Range(issued) : Cardinality({e \in log.args : e[1] = i}) = 1
        /\ \A e \in log.args :
              LET name == tasks[e[1]].RemoteName
              IN  \/ /\ <<e[1], Pull>> \in log.exec
                     /\ e[2] \in {<<"pull", name, "main">>, <<"pull", name, "HEAD">>}
                  \/ /\ <<e[1], Fetch>> \in log.exec
                     /\ e[2] = <<"fetch", name>>
                  \/ /\ <<e[1], Push>> \in log.exec
                     /\ e[2] = IF cmd.Force THEN <<"push", "--force", name>>
                               ELSE <<"push", name>>

\* a pull run with the force flag set that has run a Pull and, for a later
\* task of the same path, a Fetch
C31_Witness ==
    /\ cmd.Force /\ cmd.Operation = Pull /\ InSync
    /\ \E i, j \in 1..Len(tasks) :
          /\ i < j /\ tasks[i].RepoPath = tasks[j].RepoPath
          /\ <<i, <<"pull", tasks[i].RemoteName, "main">>>> \in log.args
          /\ <<j, <<"fetch", tasks[j].RemoteName>>>> \in log.args

\* C32: applyDefaults turns verbose and linear on when the flag or the
\* default of the configuration is on; it replaces the wildcard remote
\* selector by the default remotes of the operation when there are any, else
\* by the global default remotes when there are any, and else leaves it; it
\* leaves an explicit remote selector list, and everything else, alone.
C32_ApplyDefaults ==
    [][(pc = "main" /\ pc' = "build") =>
          LET d == cfg.Defaults
              own == CASE cmd.Operation = Pull -> d.Pull
                       [] cmd.Operation = Push -> d.Push
                       [] cmd.Operation = Fetch -> d.Fetch
          IN  /\ cmd'.Verbose = (cmd.Verbose \/ d.Verbose)
              /\ cmd'.Linear = (cmd.Linear \/ d.Linear)
              /\ cmd'.Remotes =
                    IF cmd.Remotes # <<All>> THEN cmd.Remotes
                    ELSE IF own # <<>> THEN own
                    ELSE IF d.Remotes # <<>> THEN d.Remotes
                    ELSE <<All>>
              /\ cmd'.Operation = cmd.Operation
              /\ cmd'.Repo = cmd.Repo
              /\ cmd'.Force = cmd.Force]_vars

\* a fetch whose remote selectors are now the default remotes of fetch,
\* although global default remotes are configured too, and which is verbose
\* and linear by the configuration
C32_Witness ==
    /\ pc = "build" /\ cmd.Operation = Fetch
    /\ cfg.Defaults.Fetch # <<>> /\ cfg.Defaults.Remotes # <<>>
    /\ cmd.Remotes = cfg.Defaults.Fetch
    /\ cfg.Defaults.Verbose /\ cmd.Verbose
    /\ cfg.Defaults.Linear /\ cmd.Linear

====
